---- MODULE Spec2Model ----
(***************************************************************************)
(* A model of the mockio streams of barista's testing package:            *)
(*   Readable (Stdin):  Read, Write, WriteString, signalWrite              *)
(*   Writable (Stdout): Write, ReadNow, ReadUntil                          *)
(*   nonBlockingSignal, the send that succeeds only on a parked receiver.  *)
(* and of the collapsable group of barista's group package:               *)
(*   Add, Collapsed, Collapse, Expand, Toggle, setCollapsed.               *)
(* Every goroutine is a program counter over the statements of the        *)
(* method it runs; a receive on an unbuffered channel parks the goroutine *)
(* and a non-blocking send wakes one parked receiver or does nothing.     *)
(***************************************************************************)
EXTENDS Integers, Sequences, FiniteSets, TLC

(* ------------------------------ bounds -------------------------------- *)

\* The unread bytes a stream may hold: a write that would exceed it is not issued.
MaxBuffer == 3

\* The goroutines: the Readable has one reader and the writers below.
Writers == {"w1", "w2"}
Reader == "rd"
None == "none"

\* What a caller may write, and the capacities len(out) a Read is given.
Payloads == {<< >>, <<"a">>, <<"b", "a">>}
ReadSizes == {0, 1, 3}

\* The modules a group may hold: an Add that would exceed it is not issued.
MaxModules == 2

\* The goroutines that call the methods of the group.
Callers == {"c1", "c2"}

\* The delimiters ReadUntil is asked for: one the payloads hold, one they do not.
Delims == {"a", "x"}

(* ----------------------------- sync.Mutex ----------------------------- *)

\* A goroutine that goes on without releasing the mutex.
MutexKept(holder) == holder

\* mutex.Unlock() by the goroutine that holds it: nobody holds it afterwards.
MutexUnlock(holder) == None

(* ------------------------- bytes.Buffer calls ------------------------- *)

\* copy(dst, src) for a dst of k bytes: the bytes copied, one at a time.
RECURSIVE Copy(_, _)
Copy(k, src) ==
    IF k = 0 \/ src = << >> THEN << >>
    ELSE <<Head(src)>> \o Copy(k - 1, Tail(src))

\* The unread bytes left when n bytes were taken from the front.
RECURSIVE Drop(_, _)
Drop(n, src) ==
    IF n = 0 \/ src = << >> THEN src ELSE Drop(n - 1, Tail(src))

\* r.buffer.Write(out) / r.buffer.WriteString(s): the bytes go to the end.
BufferWrite(buf, p) == buf \o p

\* A Read that copies the bytes out and leaves them in the buffer.
BufferReadNoAdvance(buf, k) ==
    [data |-> Copy(k, buf), err |-> "nil", rest |-> buf]

\* r.buffer.Read(out) with len(out) = k: an empty buffer gives io.EOF (nil
\* for a zero-length out), otherwise copy(out, unread bytes).
BufferRead(buf, k) ==
    IF buf = << >>
    THEN [data |-> << >>, err |-> IF k = 0 THEN "nil" ELSE "EOF", rest |-> << >>]
    ELSE LET d == Copy(k, buf)
         IN  [data |-> d, err |-> "nil", rest |-> Drop(Len(d), buf)]

(* ------------------------------ Readable ------------------------------ *)

VARIABLES
    rBuffer,     \* Readable.buffer: the unread bytes
    rMutex,      \* Readable.mutex: the goroutine holding it, or None
    rdPc,        \* the reader goroutine's place in Read
    rdCap,       \* len(out) of the Read in progress
    rdLen,       \* Read's local len
    rdN,         \* the bytes Read copied to out (out[:n])
    rdErr,       \* Read's e
    wtPc,        \* each writer goroutine's place in Write/WriteString
    wtData,      \* its argument
    \* history of the run, read by the properties only
    hUnread,     \* the bytes appended, in lock order, that no returned Read gave
    hInOrder,    \* every returned Read gave the front of hUnread
    hPre,        \* the buffer as the consuming step of Read found it
    hAppendInRead, \* an append happened since the Read in progress began
    hWokenBy,    \* the writer whose notification woke the Read in progress
    hParkedAtCall, \* per writer: the reader was parked when the call began
    hStage       \* per writer: how far the reader got since the writer's
                 \* notification woke it: "none" (it did not), "handed",
                 \* "consumed", "signalled" (consumed sent), "returned"
VARIABLES
    hReadRet,    \* per writer: a Read returned since its call began
    hFirst       \* the set holding the bytes of the first write issued while
                 \* the reader was parked on the empty buffer with no write in
                 \* progress, until that Read returns; empty otherwise

rvars == <<rBuffer, rMutex, rdPc, rdCap, rdLen, rdN, rdErr, wtPc, wtData,
           hUnread, hInOrder, hPre, hAppendInRead, hWokenBy,
           hParkedAtCall, hStage, hReadRet, hFirst>>

rdLocals == <<rdCap, rdLen, rdN, rdErr>>
hReader == <<hUnread, hInOrder, hPre, hAppendInRead, hWokenBy>>
hWriter == <<hParkedAtCall, hStage, hReadRet, hFirst>>

(* ------------------------------ Writable ------------------------------ *)

VARIABLES
    sBuffer,     \* Writable.buffer: the bytes written and not consumed
    sMutex,      \* Writable.mutex: the goroutine holding it, or None
    swPc,        \* each writer goroutine's place in Write
    swData,      \* its argument out
    srPc,        \* the reader goroutine's place in ReadNow or ReadUntil
    srOp,        \* which of the two it runs
    srDelim,     \* ReadUntil's delim
    srVal,       \* val
    srV,         \* ReadUntil's v
    srErr,       \* ReadUntil's err
    sTimer,      \* timeoutChan: "off", "armed" (time.After called), "fired"
    \* history of the run, read by the properties only
    hsUnread,    \* the bytes appended, in lock order, since the last read
                 \* returned, and those the buffer held then
    hsWritten,   \* the bytes of the Write calls that returned since the last
                 \* read returned, in the order they returned
    hsHadDelim,  \* the buffer held delim when ReadUntil was called
    hsPre,       \* the buffer as ReadUntil's first ReadString found it
    hsInOrder,   \* every returned ReadUntil gave the front of hsUnread and
                 \* left the rest of it in the buffer
    hsLeftAtDeadline \* the buffer held bytes when ReadUntil's select took
                 \* the timeout case

svars == <<sBuffer, sMutex, swPc, swData, srPc, srOp, srDelim, srVal, srV, srErr,
           sTimer, hsUnread, hsWritten, hsHadDelim, hsPre, hsInOrder,
           hsLeftAtDeadline>>

srLocals == <<srOp, srDelim, srVal, srV, srErr>>
hsUntil == <<hsInOrder, hsLeftAtDeadline>>
hsAll == <<hsUnread, hsWritten, hsHadDelim, hsPre, hsUntil>>

(* ----------------------------- collapsable ----------------------------- *)

VARIABLES
    gMutex,      \* collapsable's embedded sync.Mutex: the goroutine holding it
    gCollapsed,  \* collapsable.collapsed
    gModules,    \* collapsable.modules: each module's visible
    gPc,         \* each caller's place in the method it runs
    gOp,         \* the method it called
    gArg,        \* setCollapsed's argument collapsed
    gI,          \* the place of setCollapsed's range loop in g.modules
    \* history of the run, read by the properties only
    hAddedCollapsed, \* per module: the group was collapsed when Add made it
    hOdd         \* the Toggle calls issued so far are odd in number

gvars == <<gMutex, gCollapsed, gModules, gPc, gOp, gArg, gI, hAddedCollapsed, hOdd>>

gLocals == <<gOp, gArg, gI>>

vars == <<rvars, svars, gvars>>

\* Stdin(): an empty buffer, two unbuffered channels, nobody running.
Stdin ==
    /\ rBuffer = << >>
    /\ rMutex = None
    /\ rdPc = "idle"
    /\ rdCap = 0
    /\ rdLen = 0
    /\ rdN = << >>
    /\ rdErr = "nil"
    /\ wtPc = [w \in Writers |-> "idle"]
    /\ wtData = [w \in Writers |-> << >>]
    /\ hUnread = << >>
    /\ hInOrder = TRUE
    /\ hPre = << >>
    /\ hAppendInRead = FALSE
    /\ hWokenBy = None
    /\ hParkedAtCall = [w \in Writers |-> FALSE]
    /\ hStage = [w \in Writers |-> "none"]
    /\ hReadRet = [w \in Writers |-> FALSE]
    /\ hFirst = {}

\* The receivers parked on r.available and on r.consumed.
AvailableListeners == IF rdPc = "waitAvailable" THEN {Reader} ELSE {}
ConsumedListeners == {w \in Writers : wtPc[w] = "waitConsumed"}

\* A send that reports success whoever listens.
nonBlockingSignalAlways(listeners) == TRUE

\* nonBlockingSignal(ch): the send case is taken iff a receiver is parked.
nonBlockingSignal(listeners) == listeners # {}

\* The reader's progress as the writers it woke see it.
Advance(from, to) ==
    [w \in Writers |-> IF hStage[w] = from THEN to ELSE hStage[w]]

IsPrefix(s, t) == Len(s) <= Len(t) /\ SubSeq(t, 1, Len(s)) = s

\* ---- Read(out) ----

\* The caller enters Read with an out of k bytes.
ReadCall(k) ==
    /\ rdPc = "idle"
    /\ rdPc' = "lockLen"
    /\ rdCap' = k
    /\ UNCHANGED <<gvars, svars, rBuffer, rMutex, rdLen, rdN, rdErr, wtPc, wtData, hReader,
                   hWriter>>

\* r.mutex.Lock(); len := r.buffer.Len()
ReadLockLen ==
    /\ rdPc = "lockLen"
    /\ rMutex = None
    /\ rMutex' = Reader
    /\ rdLen' = Len(rBuffer)
    /\ rdPc' = "unlockLen"
    /\ UNCHANGED <<gvars, svars, rBuffer, rdCap, rdN, rdErr, wtPc, wtData, hReader, hWriter>>

\* r.mutex.Unlock()
ReadUnlockLen ==
    /\ rdPc = "unlockLen"
    /\ rMutex' = MutexUnlock(rMutex)
    /\ rdPc' = "ifEmpty"
    /\ UNCHANGED <<gvars, svars, rBuffer, rdLocals, wtPc, wtData, hReader, hWriter>>

\* if len == 0 { <-r.available }: where Read goes after the test.
ReadIfEmptyTarget == IF rdLen = 0 THEN "recvAvailable" ELSE "lockRead"

ReadIfEmpty ==
    /\ rdPc = "ifEmpty"
    /\ rdPc' = ReadIfEmptyTarget
    /\ UNCHANGED <<gvars, svars, rBuffer, rMutex, rdLocals, wtPc, wtData, hReader, hWriter>>

\* <-r.available: no sender ever waits on the channel, so the receive parks.
ReadRecvAvailable ==
    /\ rdPc = "recvAvailable"
    /\ rdPc' = "waitAvailable"
    /\ UNCHANGED <<gvars, svars, rBuffer, rMutex, rdLocals, wtPc, wtData, hReader, hWriter>>

\* r.mutex.Lock(); n, e = r.buffer.Read(out)
ReadConsume ==
    /\ rdPc = "lockRead"
    /\ rMutex = None
    /\ rMutex' = Reader
    /\ LET res == BufferRead(rBuffer, rdCap)
       IN  /\ rdN' = res.data
           /\ rdErr' = res.err
           /\ rBuffer' = res.rest
    /\ hPre' = rBuffer
    /\ hStage' = Advance("handed", "consumed")
    /\ rdPc' = "unlockRead"
    /\ UNCHANGED <<gvars, svars, rdCap, rdLen, wtPc, wtData, hUnread, hInOrder, hAppendInRead,
                   hWokenBy, hParkedAtCall, hReadRet, hFirst>>

\* r.mutex.Unlock()
ReadUnlockRead ==
    /\ rdPc = "unlockRead"
    /\ rMutex' = MutexUnlock(rMutex)
    /\ rdPc' = "signalConsumed"
    /\ UNCHANGED <<gvars, svars, rBuffer, rdLocals, wtPc, wtData, hReader, hWriter>>

\* nonBlockingSignal(r.consumed): one writer parked on consumed, if there is
\* one, receives and runs on; otherwise the notification is dropped.
ReadSignalConsumed ==
    /\ rdPc = "signalConsumed"
    /\ IF nonBlockingSignal(ConsumedListeners)
       THEN \E w \in ConsumedListeners : wtPc' = [wtPc EXCEPT ![w] = "return"]
       ELSE wtPc' = wtPc
    /\ hStage' = Advance("consumed", "signalled")
    /\ rdPc' = "fixEOF"
    /\ UNCHANGED <<gvars, svars, rBuffer, rMutex, rdLocals, wtData, hReader, hParkedAtCall,
                   hReadRet, hFirst>>

\* Read without the translation of io.EOF.
KeepEOF(e) == e

\* if e == io.EOF { e = nil }
FixEOF(e) == IF e = "EOF" THEN "nil" ELSE e

ReadFixEOF ==
    /\ rdPc = "fixEOF"
    /\ rdErr' = FixEOF(rdErr)
    /\ rdPc' = "return"
    /\ UNCHANGED <<gvars, svars, rBuffer, rMutex, rdCap, rdLen, rdN, wtPc, wtData, hReader,
                   hWriter>>

\* return: the caller has out[:n] and e.
ReadReturn ==
    /\ rdPc = "return"
    /\ rdPc' = "idle"
    /\ hInOrder' = (hInOrder /\ IsPrefix(rdN, hUnread))
    /\ hUnread' = Drop(Len(rdN), hUnread)
    /\ hReadRet' = [w \in Writers |-> hReadRet[w] \/ hParkedAtCall[w]]
    /\ hStage' = Advance("signalled", "returned")
    /\ rdCap' = 0
    /\ rdLen' = 0
    /\ rdN' = << >>
    /\ rdErr' = "nil"
    /\ hPre' = << >>
    /\ hAppendInRead' = FALSE
    /\ hWokenBy' = None
    /\ hFirst' = {}
    /\ UNCHANGED <<gvars, svars, rBuffer, rMutex, wtPc, wtData, hParkedAtCall>>

\* ---- Write(out), WriteString(s), signalWrite() ----

\* The bytes of the writes issued and not yet appended.
RECURSIVE PendingLen(_)
PendingLen(S) ==
    IF S = {} THEN 0
    ELSE LET w == CHOOSE x \in S : TRUE
         IN  (IF wtPc[w] = "lock" THEN Len(wtData[w]) ELSE 0) + PendingLen(S \ {w})

\* The caller enters Write(out) or WriteString(s) with the bytes p; the two
\* bodies are the same statements.
WriteCall(w, p) ==
    /\ wtPc[w] = "idle"
    /\ Len(rBuffer) + PendingLen(Writers) + Len(p) <= MaxBuffer
    /\ wtPc' = [wtPc EXCEPT ![w] = "lock"]
    /\ wtData' = [wtData EXCEPT ![w] = p]
    /\ hParkedAtCall' = [hParkedAtCall EXCEPT ![w] = (rdPc = "waitAvailable")]
    /\ hFirst' = IF /\ hFirst = {}
                    /\ rdPc = "waitAvailable"
                    /\ rBuffer = << >>
                    /\ \A v \in Writers : wtPc[v] = "idle"
                 THEN {p} ELSE hFirst
    /\ UNCHANGED <<gvars, svars, rBuffer, rMutex, rdPc, rdLocals, hReader, hStage, hReadRet>>

\* r.mutex.Lock(); n, e = r.buffer.Write(out)  /  r.buffer.WriteString(s)
WriteAppend(w) ==
    /\ wtPc[w] = "lock"
    /\ rMutex = None
    /\ rMutex' = w
    /\ rBuffer' = BufferWrite(rBuffer, wtData[w])
    /\ hUnread' = hUnread \o wtData[w]
    /\ hAppendInRead' = (hAppendInRead \/ rdPc # "idle")
    /\ wtPc' = [wtPc EXCEPT ![w] = "unlock"]
    /\ wtData' = [wtData EXCEPT ![w] = << >>]   \* out is not read again
    /\ UNCHANGED <<gvars, svars, rdPc, rdLocals, hInOrder, hPre, hWokenBy, hWriter>>

\* r.mutex.Unlock()
WriteUnlock(w) ==
    /\ wtPc[w] = "unlock"
    /\ rMutex' = MutexUnlock(rMutex)
    /\ wtPc' = [wtPc EXCEPT ![w] = "signalWrite"]
    /\ UNCHANGED <<gvars, svars, rBuffer, rdPc, rdLocals, wtData, hReader, hWriter>>

\* signalWrite without the wait for consumption.
signalWriteNoWait(sent) == "return"

\* signalWrite waiting for consumption whatever the send did.
signalWriteAlwaysWait(sent) == "recvConsumed"

\* signalWrite: if nonBlockingSignal(r.available) { <-r.consumed }: where the
\* writer goes given the result of the send.
signalWriteTarget(sent) == IF sent THEN "recvConsumed" ELSE "return"

\* r.signalWrite(): nonBlockingSignal(r.available) wakes the parked reader,
\* if there is one, out of its receive.
WriteSignal(w) ==
    /\ wtPc[w] = "signalWrite"
    /\ LET sent == nonBlockingSignal(AvailableListeners)
       IN  /\ wtPc' = [wtPc EXCEPT ![w] = signalWriteTarget(sent)]
           /\ rdPc' = IF sent THEN "lockRead" ELSE rdPc
           /\ hWokenBy' = IF sent THEN w ELSE hWokenBy
           /\ hStage' = [hStage EXCEPT ![w] = IF sent THEN "handed" ELSE "none"]
    /\ UNCHANGED <<gvars, svars, rBuffer, rMutex, rdLocals, wtData, hUnread, hInOrder, hPre,
                   hAppendInRead, hParkedAtCall, hReadRet, hFirst>>

\* <-r.consumed: no sender ever waits on the channel, so the receive parks.
WriteRecvConsumed(w) ==
    /\ wtPc[w] = "recvConsumed"
    /\ wtPc' = [wtPc EXCEPT ![w] = "waitConsumed"]
    /\ UNCHANGED <<gvars, svars, rBuffer, rMutex, rdPc, rdLocals, wtData, hReader, hWriter>>

\* return
WriteReturn(w) ==
    /\ wtPc[w] = "return"
    /\ wtPc' = [wtPc EXCEPT ![w] = "idle"]
    /\ hParkedAtCall' = [hParkedAtCall EXCEPT ![w] = FALSE]
    /\ hStage' = [hStage EXCEPT ![w] = "none"]
    /\ hReadRet' = [hReadRet EXCEPT ![w] = FALSE]
    /\ UNCHANGED <<gvars, svars, rBuffer, rMutex, rdPc, rdLocals, wtData, hReader, hFirst>>

\* A step of the reader goroutine inside Read, and of a writer inside a write.
ReaderStep ==
    \/ ReadLockLen
    \/ ReadUnlockLen
    \/ ReadIfEmpty
    \/ ReadRecvAvailable
    \/ ReadConsume
    \/ ReadUnlockRead
    \/ ReadSignalConsumed
    \/ ReadFixEOF
    \/ ReadReturn

WriterStep(w) ==
    \/ WriteAppend(w)
    \/ WriteUnlock(w)
    \/ WriteSignal(w)
    \/ WriteRecvConsumed(w)
    \/ WriteReturn(w)

ReadableNext ==
    \/ \E k \in ReadSizes : ReadCall(k)
    \/ ReaderStep
    \/ \E w \in Writers, p \in Payloads : WriteCall(w, p)
    \/ \E w \in Writers : WriterStep(w)

\* The Readable with a single writer goroutine beside the reader.
ReadableSoloNext ==
    \/ \E k \in ReadSizes : ReadCall(k)
    \/ ReaderStep
    \/ \E p \in Payloads : WriteCall("w1", p)
    \/ WriterStep("w1")

(* ------------------------- Writable: operations ------------------------ *)

\* Stdout(): an empty buffer, one unbuffered channel, nobody running.
Stdout ==
    /\ sBuffer = << >>
    /\ sMutex = None
    /\ swPc = [w \in Writers |-> "idle"]
    /\ swData = [w \in Writers |-> << >>]
    /\ srPc = "idle"
    /\ srOp = None
    /\ srDelim = None
    /\ srVal = << >>
    /\ srV = << >>
    /\ srErr = "nil"
    /\ sTimer = "off"
    /\ hsUnread = << >>
    /\ hsWritten = << >>
    /\ hsHadDelim = FALSE
    /\ hsPre = << >>
    /\ hsInOrder = TRUE
    /\ hsLeftAtDeadline = FALSE

\* The receivers parked on w.signal: ReadUntil inside its select.
SignalListeners == IF srPc = "waitSelect" THEN {Reader} ELSE {}

\* w.buffer.String(): the unread bytes, which stay in the buffer.
BufferString(buf) == buf

\* A ReadString that gives the line without its delimiter.
RECURSIVE BufferReadStringDropDelim(_, _)
BufferReadStringDropDelim(buf, delim) ==
    IF buf = << >> THEN [line |-> << >>, err |-> "EOF", rest |-> << >>]
    ELSE IF Head(buf) = delim
         THEN [line |-> << >>, err |-> "nil", rest |-> Tail(buf)]
         ELSE LET r == BufferReadStringDropDelim(Tail(buf), delim)
              IN  [line |-> <<Head(buf)>> \o r.line, err |-> r.err, rest |-> r.rest]

\* w.buffer.ReadString(delim): the bytes up to and including the first delim,
\* or, when there is none, all of them with io.EOF; what it gives is consumed.
RECURSIVE BufferReadString(_, _)
BufferReadString(buf, delim) ==
    IF buf = << >> THEN [line |-> << >>, err |-> "EOF", rest |-> << >>]
    ELSE IF Head(buf) = delim
         THEN [line |-> <<delim>>, err |-> "nil", rest |-> Tail(buf)]
         ELSE LET r == BufferReadString(Tail(buf), delim)
              IN  [line |-> <<Head(buf)>> \o r.line, err |-> r.err, rest |-> r.rest]

\* ---- Write(out) ----

\* The bytes of the writes issued and not yet appended.
RECURSIVE SPendingLen(_)
SPendingLen(S) ==
    IF S = {} THEN 0
    ELSE LET w == CHOOSE x \in S : TRUE
         IN  (IF swPc[w] = "lock" THEN Len(swData[w]) ELSE 0) + SPendingLen(S \ {w})

\* The caller enters Write with the bytes p.
SWriteCall(w, p) ==
    /\ swPc[w] = "idle"
    /\ Len(hsUnread) + SPendingLen(Writers) + Len(p) <= MaxBuffer
    /\ swPc' = [swPc EXCEPT ![w] = "lock"]
    /\ swData' = [swData EXCEPT ![w] = p]
    /\ UNCHANGED <<gvars, rvars, sBuffer, sMutex, srPc, srLocals, sTimer, hsAll>>

\* w.mutex.Lock(); n, e = w.buffer.Write(out)
SWriteAppend(w) ==
    /\ swPc[w] = "lock"
    /\ sMutex = None
    /\ sMutex' = w
    /\ sBuffer' = BufferWrite(sBuffer, swData[w])
    /\ hsUnread' = hsUnread \o swData[w]
    /\ swPc' = [swPc EXCEPT ![w] = "unlock"]
    /\ UNCHANGED <<gvars, rvars, swData, srPc, srLocals, sTimer, hsWritten, hsHadDelim, hsPre,
                   hsUntil>>

\* w.mutex.Unlock()
SWriteUnlock(w) ==
    /\ swPc[w] = "unlock"
    /\ sMutex' = MutexUnlock(sMutex)
    /\ swPc' = [swPc EXCEPT ![w] = "signal"]
    /\ UNCHANGED <<gvars, rvars, sBuffer, swData, srPc, srLocals, sTimer, hsAll>>

\* nonBlockingSignal(w.signal): a ReadUntil parked in its select takes the
\* signal case; otherwise the notification is dropped.
SWriteSignal(w) ==
    /\ swPc[w] = "signal"
    /\ srPc' = IF nonBlockingSignal(SignalListeners) THEN "relock" ELSE srPc
    /\ swPc' = [swPc EXCEPT ![w] = "return"]
    /\ UNCHANGED <<gvars, rvars, sBuffer, sMutex, swData, srLocals, sTimer, hsAll>>

\* return
SWriteReturn(w) ==
    /\ swPc[w] = "return"
    /\ swPc' = [swPc EXCEPT ![w] = "idle"]
    /\ swData' = [swData EXCEPT ![w] = << >>]
    /\ hsWritten' = hsWritten \o swData[w]
    /\ UNCHANGED <<gvars, rvars, sBuffer, sMutex, srPc, srLocals, sTimer, hsUnread,
                   hsHadDelim, hsPre, hsUntil>>

SWriterStep(w) ==
    \/ SWriteAppend(w)
    \/ SWriteUnlock(w)
    \/ SWriteSignal(w)
    \/ SWriteReturn(w)

\* ---- ReadNow() ----

\* The caller enters ReadNow.
ReadNowCall ==
    /\ srPc = "idle"
    /\ srPc' = "nowLock"
    /\ srOp' = "ReadNow"
    /\ UNCHANGED <<gvars, rvars, sBuffer, sMutex, swPc, swData, srDelim, srVal, srV, srErr,
                   sTimer, hsAll>>

\* w.mutex.Lock(); val := w.buffer.String()
ReadNowString ==
    /\ srPc = "nowLock"
    /\ sMutex = None
    /\ sMutex' = Reader
    /\ srVal' = BufferString(sBuffer)
    /\ srPc' = "nowUnlock"
    /\ UNCHANGED <<gvars, rvars, sBuffer, swPc, swData, srOp, srDelim, srV, srErr, sTimer,
                   hsAll>>

\* w.mutex.Unlock()
ReadNowUnlock ==
    /\ srPc = "nowUnlock"
    /\ sMutex' = MutexUnlock(sMutex)
    /\ srPc' = "nowReset"
    /\ UNCHANGED <<gvars, rvars, sBuffer, swPc, swData, srLocals, sTimer, hsAll>>

\* A ReadNow that leaves the buffer as it is.
ResetSkipped == {sBuffer}

\* w.buffer = bytes.Buffer{}, made without the mutex. With no other goroutine
\* inside a critical section the buffer is empty afterwards; racing with a
\* Write that holds the mutex, the store of the empty buffer lands or is
\* overwritten by that Write's own store of the buffer it appended to.
ResetOutcomes == IF sMutex = None THEN {<< >>} ELSE {<< >>, sBuffer}

ReadNowReset ==
    /\ srPc = "nowReset"
    /\ sBuffer' \in ResetOutcomes
    /\ srPc' = "return"
    /\ UNCHANGED <<gvars, rvars, sMutex, swPc, swData, srLocals, sTimer, hsAll>>

\* ---- ReadUntil(delim, timeout) ----

RECURSIVE Contains(_, _)
Contains(buf, b) ==
    IF buf = << >> THEN FALSE ELSE Head(buf) = b \/ Contains(Tail(buf), b)

\* The caller enters ReadUntil.
ReadUntilCall(delim) ==
    /\ srPc = "idle"
    /\ srPc' = "untilLock"
    /\ srOp' = "ReadUntil"
    /\ srDelim' = delim
    /\ hsHadDelim' = Contains(sBuffer, delim)
    /\ UNCHANGED <<gvars, rvars, sBuffer, sMutex, swPc, swData, srVal, srV, srErr, sTimer,
                   hsUnread, hsWritten, hsPre, hsUntil>>

\* w.mutex.Lock(); val, err := w.buffer.ReadString(delim)
ReadUntilReadString ==
    /\ srPc = "untilLock"
    /\ sMutex = None
    /\ sMutex' = Reader
    /\ LET res == BufferReadString(sBuffer, srDelim)
       IN  /\ srVal' = res.line
           /\ srErr' = res.err
           /\ sBuffer' = res.rest
    /\ hsPre' = sBuffer
    /\ srPc' = "untilUnlock"
    /\ UNCHANGED <<gvars, rvars, swPc, swData, srOp, srDelim, srV, sTimer, hsUnread,
                   hsWritten, hsHadDelim, hsUntil>>

\* w.mutex.Unlock(); if err == nil { return val, nil }
ReadUntilUnlock ==
    /\ srPc = "untilUnlock"
    /\ sMutex' = MutexUnlock(sMutex)
    /\ srPc' = IF srErr = "nil" THEN "return" ELSE "timeAfter"
    /\ UNCHANGED <<gvars, rvars, sBuffer, swPc, swData, srLocals, sTimer, hsAll>>

\* timeoutChan := time.After(timeout); for err == io.EOF {
ReadUntilTimeAfter ==
    /\ srPc = "timeAfter"
    /\ sTimer' = "armed"
    /\ srPc' = "select"
    /\ UNCHANGED <<gvars, rvars, sBuffer, sMutex, swPc, swData, srLocals, hsAll>>

\* select { case <-timeoutChan: ... case <-w.signal: ... }: a timer that has
\* fired is received at once (return val, err); no sender waits on w.signal,
\* so otherwise the goroutine parks on both channels.
\* A select without its timeout case.
SelectIgnoresTimer(timer) == "waitSelect"

\* Where the select goes given the timer.
SelectTarget(timer) == IF timer = "fired" THEN "return" ELSE "waitSelect"

ReadUntilSelect ==
    /\ srPc = "select"
    /\ srPc' = SelectTarget(sTimer)
    /\ hsLeftAtDeadline' = (sTimer = "fired" /\ sBuffer # << >>)
    /\ UNCHANGED <<gvars, rvars, sBuffer, sMutex, swPc, swData, srLocals, sTimer, hsUnread,
                   hsWritten, hsHadDelim, hsPre, hsInOrder>>

\* The timeout elapses: timeoutChan holds the time, and a ReadUntil parked in
\* its select takes that case (return val, err).
TimerFires ==
    /\ sTimer = "armed"
    /\ sTimer' = "fired"
    /\ srPc' = IF srPc = "waitSelect" THEN "return" ELSE srPc
    /\ hsLeftAtDeadline' = (srPc = "waitSelect" /\ sBuffer # << >>)
    /\ UNCHANGED <<gvars, rvars, sBuffer, sMutex, swPc, swData, srLocals, hsUnread,
                   hsWritten, hsHadDelim, hsPre, hsInOrder>>

\* case <-w.signal: w.mutex.Lock(); v, err = w.buffer.ReadString(delim)
ReadUntilReadMore ==
    /\ srPc = "relock"
    /\ sMutex = None
    /\ sMutex' = Reader
    /\ LET res == BufferReadString(sBuffer, srDelim)
       IN  /\ srV' = res.line
           /\ srErr' = res.err
           /\ sBuffer' = res.rest
    /\ srPc' = "unlockMore"
    /\ UNCHANGED <<gvars, rvars, swPc, swData, srOp, srDelim, srVal, sTimer, hsAll>>

\* w.mutex.Unlock()
ReadUntilUnlockMore ==
    /\ srPc = "unlockMore"
    /\ sMutex' = MutexUnlock(sMutex)
    /\ srPc' = "accumulate"
    /\ UNCHANGED <<gvars, rvars, sBuffer, swPc, swData, srLocals, sTimer, hsAll>>

\* A loop body that keeps only what the last ReadString gave.
AccumulateLast(val, v) == v

\* val += v
Accumulate(val, v) == val \o v

\* val += v; then the loop test err == io.EOF, and return val, err after it.
ReadUntilAccumulate ==
    /\ srPc = "accumulate"
    /\ srVal' = Accumulate(srVal, srV)
    /\ srV' = << >>
    /\ srPc' = IF srErr = "EOF" THEN "select" ELSE "return"
    /\ UNCHANGED <<gvars, rvars, sBuffer, sMutex, swPc, swData, srOp, srDelim, srErr,
                   sTimer, hsAll>>

\* return, of ReadNow and of ReadUntil: the caller has val (and err).
SReadReturn ==
    /\ srPc = "return"
    /\ srPc' = "idle"
    /\ srOp' = None
    /\ srDelim' = None
    /\ srVal' = << >>
    /\ srV' = << >>
    /\ srErr' = "nil"
    /\ sTimer' = "off"
    /\ hsInOrder' = (hsInOrder /\ (srOp = "ReadUntil" => hsUnread = srVal \o sBuffer))
    /\ hsUnread' = sBuffer
    /\ hsWritten' = << >>
    /\ hsHadDelim' = FALSE
    /\ hsPre' = << >>
    /\ hsLeftAtDeadline' = FALSE
    /\ UNCHANGED <<gvars, rvars, sBuffer, sMutex, swPc, swData>>

ReadNowStep ==
    \/ ReadNowString
    \/ ReadNowUnlock
    \/ ReadNowReset

ReadUntilStep ==
    \/ ReadUntilReadString
    \/ ReadUntilUnlock
    \/ ReadUntilTimeAfter
    \/ ReadUntilSelect
    \/ ReadUntilReadMore
    \/ ReadUntilUnlockMore
    \/ ReadUntilAccumulate

WritableNext ==
    \/ \E w \in Writers, p \in Payloads : SWriteCall(w, p)
    \/ \E w \in Writers : SWriterStep(w)
    \/ ReadNowCall
    \/ ReadNowStep
    \/ \E d \in Delims : ReadUntilCall(d)
    \/ ReadUntilStep
    \/ TimerFires
    \/ SReadReturn

\* The Writable accessed through Write and ReadUntil only.
WritableUntilNext ==
    \/ \E w \in Writers, p \in Payloads : SWriteCall(w, p)
    \/ \E w \in Writers : SWriterStep(w)
    \/ \E d \in Delims : ReadUntilCall(d)
    \/ ReadUntilStep
    \/ TimerFires
    \/ SReadReturn

\* The Writable with a single writer goroutine beside the reader.
WritableSoloNext ==
    \/ \E p \in Payloads : SWriteCall("w1", p)
    \/ SWriterStep("w1")
    \/ ReadNowCall
    \/ ReadNowStep
    \/ \E d \in Delims : ReadUntilCall(d)
    \/ ReadUntilStep
    \/ TimerFires
    \/ SReadReturn

\* One caller at a time: a call is issued when no call is in progress, as by
\* a test that writes and then reads from one goroutine.
Quiet == srPc = "idle" /\ \A w \in Writers : swPc[w] = "idle"

WritableSeqNext ==
    \/ \E w \in Writers, p \in Payloads : Quiet /\ SWriteCall(w, p)
    \/ \E w \in Writers : SWriterStep(w)
    \/ Quiet /\ ReadNowCall
    \/ ReadNowStep
    \/ SReadReturn

\* A Readable and a Writable share no field: a run exercises one of the two
\* streams and leaves the other as its constructor made it.
StreamsNext ==
    \/ Stdout /\ ReadableNext
    \/ Stdin /\ WritableNext

(* ----------------------- collapsable: operations ----------------------- *)

\* Collapsing(): &collapsable{}: no module, expanded, nobody running.
Collapsing ==
    /\ gMutex = None
    /\ gCollapsed = FALSE
    /\ gModules = << >>
    /\ gPc = [c \in Callers |-> "idle"]
    /\ gOp = [c \in Callers |-> None]
    /\ gArg = [c \in Callers |-> FALSE]
    /\ gI = [c \in Callers |-> 0]
    /\ hAddedCollapsed = << >>
    /\ hOdd = FALSE

\* A caller enters Add, Collapsed, Collapse, Expand or Toggle. Collapse and
\* Expand are setCollapsed(true) and setCollapsed(false); Toggle begins with
\* the call of Collapsed that computes setCollapsed's argument.
GroupCall(c, op) ==
    /\ gPc[c] = "idle"
    /\ op = "Add" => Len(gModules) + Cardinality({d \in Callers : gPc[d] = "addLock"})
                        < MaxModules
    /\ gOp' = [gOp EXCEPT ![c] = op]
    /\ gPc' = [gPc EXCEPT ![c] = CASE op = "Add" -> "addLock"
                                    [] op \in {"Collapsed", "Toggle"} -> "collapsedLock"
                                    [] OTHER -> "setLock"]
    /\ gArg' = [gArg EXCEPT ![c] = (op = "Collapse")]
    /\ hOdd' = IF op = "Toggle" THEN ~hOdd ELSE hOdd
    /\ UNCHANGED <<rvars, svars, gMutex, gCollapsed, gModules, gI, hAddedCollapsed>>

\* An Add that makes every module visible.
AddVisibleAlways(collapsed) == TRUE

\* visible: !g.collapsed
AddVisible(collapsed) == ~collapsed

\* g.Lock(); m := &module{Module: original, visible: !g.collapsed};
\* g.modules = append(g.modules, m)
AddAppend(c) ==
    /\ gPc[c] = "addLock"
    /\ gMutex = None
    /\ gMutex' = c
    /\ gModules' = Append(gModules, [visible |-> AddVisible(gCollapsed)])
    /\ hAddedCollapsed' = Append(hAddedCollapsed, gCollapsed)
    /\ gPc' = [gPc EXCEPT ![c] = "unlock"]
    /\ UNCHANGED <<rvars, svars, gCollapsed, gLocals, hOdd>>

\* g.Lock(); return g.collapsed: the value is kept for the caller.
CollapsedRead(c) ==
    /\ gPc[c] = "collapsedLock"
    /\ gMutex = None
    /\ gMutex' = c
    /\ gArg' = [gArg EXCEPT ![c] = gCollapsed]
    /\ gPc' = [gPc EXCEPT ![c] = "collapsedUnlock"]
    /\ UNCHANGED <<rvars, svars, gCollapsed, gModules, gOp, gI, hAddedCollapsed, hOdd>>

\* The deferred g.Unlock() of Collapsed; in Toggle its result, negated, is
\* the argument of setCollapsed: g.setCollapsed(!g.Collapsed()).
CollapsedUnlock(c) ==
    /\ gPc[c] = "collapsedUnlock"
    /\ gMutex' = MutexUnlock(gMutex)
    /\ IF gOp[c] = "Toggle"
       THEN /\ gArg' = [gArg EXCEPT ![c] = ~gArg[c]]
            /\ gPc' = [gPc EXCEPT ![c] = "setLock"]
            /\ gOp' = gOp
       ELSE /\ gArg' = [gArg EXCEPT ![c] = FALSE]
            /\ gPc' = [gPc EXCEPT ![c] = "idle"]
            /\ gOp' = [gOp EXCEPT ![c] = None]
    /\ UNCHANGED <<rvars, svars, gCollapsed, gModules, gI, hAddedCollapsed, hOdd>>

\* setCollapsed: g.Lock(); g.collapsed = collapsed; the range loop begins.
SetCollapsedAssign(c) ==
    /\ gPc[c] = "setLock"
    /\ gMutex = None
    /\ gMutex' = c
    /\ gCollapsed' = gArg[c]
    /\ gI' = [gI EXCEPT ![c] = 1]
    /\ gPc' = [gPc EXCEPT ![c] = "range"]
    /\ UNCHANGED <<rvars, svars, gModules, gOp, gArg, hAddedCollapsed, hOdd>>

\* m.SetVisible(visible): the module's visible becomes the argument.
SetVisible(m, visible) == [m EXCEPT !.visible = visible]

\* for _, m := range g.modules { m.SetVisible(!g.collapsed) }: one module.
SetCollapsedRange(c) ==
    /\ gPc[c] = "range"
    /\ gI[c] <= Len(gModules)
    /\ gModules' = [gModules EXCEPT ![gI[c]] = SetVisible(@, ~gCollapsed)]
    /\ gI' = [gI EXCEPT ![c] = @ + 1]
    /\ UNCHANGED <<rvars, svars, gMutex, gCollapsed, gPc, gOp, gArg, hAddedCollapsed,
                   hOdd>>

\* The loop is over: the deferred unlock of setCollapsed follows.
SetCollapsedRangeEnd(c) ==
    /\ gPc[c] = "range"
    /\ gI[c] > Len(gModules)
    /\ gI' = [gI EXCEPT ![c] = 0]
    /\ gPc' = [gPc EXCEPT ![c] = "unlock"]
    /\ UNCHANGED <<rvars, svars, gMutex, gCollapsed, gModules, gOp, gArg,
                   hAddedCollapsed, hOdd>>

\* The deferred g.Unlock() of Add and of setCollapsed, and the return.
GroupUnlock(c) ==
    /\ gPc[c] = "unlock"
    /\ gMutex' = MutexUnlock(gMutex)
    /\ gPc' = [gPc EXCEPT ![c] = "idle"]
    /\ gOp' = [gOp EXCEPT ![c] = None]
    /\ gArg' = [gArg EXCEPT ![c] = FALSE]
    /\ UNCHANGED <<rvars, svars, gCollapsed, gModules, gI, hAddedCollapsed, hOdd>>

GroupStep(c) ==
    \/ AddAppend(c)
    \/ CollapsedRead(c)
    \/ CollapsedUnlock(c)
    \/ SetCollapsedAssign(c)
    \/ SetCollapsedRange(c)
    \/ SetCollapsedRangeEnd(c)
    \/ GroupUnlock(c)

\* The methods of Collapsable that callers use.
GroupOps == {"Add", "Collapsed", "Collapse", "Expand", "Toggle"}

CollapsableNext ==
    \/ \E c \in Callers, op \in GroupOps : GroupCall(c, op)
    \/ \E c \in Callers : GroupStep(c)

\* The group with no Collapse and no Expand call.
CollapsableToggleNext ==
    \/ \E c \in Callers, op \in {"Add", "Collapsed", "Toggle"} : GroupCall(c, op)
    \/ \E c \in Callers : GroupStep(c)

(* --------------------------- specifications ---------------------------- *)

Init == Stdin /\ Stdout /\ Collapsing

ReadableSpec == Init /\ [][ReadableNext]_vars

ReadableSoloSpec == Init /\ [][ReadableSoloNext]_vars

WritableSpec == Init /\ [][WritableNext]_vars

WritableSeqSpec == Init /\ [][WritableSeqNext]_vars

WritableUntilSpec == Init /\ [][WritableUntilNext]_vars

StreamsSpec == Init /\ [][StreamsNext]_vars

CollapsableSpec == Init /\ [][CollapsableNext]_vars

CollapsableToggleSpec == Init /\ [][CollapsableToggleNext]_vars

\* The Go scheduler runs every runnable goroutine, and sync.Mutex hands the
\* lock to a goroutine that keeps waiting for it: inside a call every
\* goroutine keeps taking steps. Nothing makes a caller issue another call.
ReadableFairSpec ==
    /\ ReadableSpec
    /\ SF_vars(ReaderStep)
    /\ \A w \in Writers : SF_vars(WriterStep(w))

\* The same for the goroutines of a Writable; and the runtime's timer of
\* time.After delivers the time once the duration has elapsed.
WritableSoloFairSpec ==
    /\ Init /\ [][WritableSoloNext]_vars
    /\ SF_vars(ReadNowStep)
    /\ SF_vars(ReadUntilStep)
    /\ SF_vars(SWriterStep("w1"))
    /\ WF_vars(TimerFires)

(* ------------------------- properties: Readable ------------------------ *)

Min(a, b) == IF a < b THEN a ELSE b

\* The places of Read after the wait on r.available.
AfterWait == {"lockRead", "unlockRead", "signalConsumed", "fixEOF", "return"}
\* The places of Read after the consuming step.
AfterConsume == {"unlockRead", "signalConsumed", "fixEOF", "return"}
\* The places of a write inside signalWrite's wait for consumption.
InWait == {"recvConsumed", "waitConsumed"}

\* C1: with one reader, a write whose availability notification woke the
\* parked reader does not return before that reader has executed the
\* consuming step of the Read it woke.
C1_ReturnAfterConsume ==
    \A w \in Writers :
        (wtPc[w] = "return" /\ hStage[w] # "none")
            => hStage[w] \in {"consumed", "signalled", "returned"}

C1_Witness ==
    \E w \in Writers :
        wtPc[w] = "return" /\ hStage[w] \in {"consumed", "signalled", "returned"}

\* C2 as stated: a write issued while the reader is parked in Read does not
\* return before a Read call has returned to its caller.
C2_ReturnAfterReadReturns ==
    \A w \in Writers :
        (wtPc[w] = "return" /\ hParkedAtCall[w]) => hReadRet[w]

\* C2, amended: a write issued while the reader is parked in Read, and whose
\* notification is the one that wakes it, does not return before that reader
\* has consumed and has sent the consumed signal; Read itself may still be
\* running.
C2_ReturnAfterConsumedSignal ==
    \A w \in Writers :
        (wtPc[w] = "return" /\ hParkedAtCall[w] /\ hStage[w] # "none")
            => /\ hStage[w] \in {"signalled", "returned"}
               /\ (hStage[w] = "signalled" => rdPc \in {"fixEOF", "return"})

C2_Witness ==
    \E w \in Writers :
        /\ wtPc[w] = "return"
        /\ hParkedAtCall[w]
        /\ hStage[w] = "signalled"
        /\ rdPc = "fixEOF"

\* C3: once the Read that a write woke has returned, the write, if it is
\* still inside signalWrite's wait, eventually returns.
C3_WriterReleased ==
    \A w \in Writers :
        (hStage[w] = "returned" /\ wtPc[w] \in InWait) ~> (wtPc[w] = "return")

\* C4 as stated: a write issued while no reader is parked on r.available
\* never waits on r.consumed.
C4_NoWaitIfNotParkedAtCall ==
    \A w \in Writers : wtPc[w] \in InWait => hParkedAtCall[w]

\* C4, amended: a write whose availability notification finds no reader
\* parked on r.available never waits on r.consumed, whatever the buffer holds.
C4_NoWaitIfNotParkedAtNotify ==
    \A w \in Writers : wtPc[w] \in InWait => hStage[w] # "none"

C4_Witness ==
    \E w \in Writers :
        /\ wtPc[w] = "return"
        /\ hStage[w] = "none"
        /\ ~hParkedAtCall[w]
        /\ Len(rBuffer) = MaxBuffer

\* C5: a Read that found the buffer empty gets past its wait only after a
\* write appended to the buffer since the Read began.
C5_WokenByAppendInRead ==
    (rdPc \in AfterWait /\ rdLen = 0) => hAppendInRead

\* C6: the consuming step of a Read with capacity k gives the first
\* min(k, length) bytes of the buffer and leaves the rest; the bytes the Reads
\* returned, then the bytes of a Read in progress, then the buffer, are the
\* bytes appended, in lock order.
C6_ReadsArePrefix ==
    /\ rdPc = "unlockRead" =>
          LET n == Min(rdCap, Len(hPre))
          IN  /\ rdN = SubSeq(hPre, 1, n)
              /\ rBuffer = SubSeq(hPre, n + 1, Len(hPre))
    /\ hInOrder
    /\ hUnread = rdN \o rBuffer

C6_Witness ==
    /\ rdPc = "unlockRead"
    /\ Len(hPre) = 3
    /\ rdN = <<"a">>
    /\ rBuffer = <<"b", "a">>

\* C7: Read returns a nil error, and zero bytes when its consuming step finds
\* the buffer empty.
C7_NeverEOF ==
    /\ rdPc = "return" => rdErr = "nil"
    /\ (rdPc \in AfterConsume /\ hPre = << >>) => rdN = << >>

C7_Witness ==
    /\ rdPc = "return"
    /\ hWokenBy # None
    /\ hPre = << >>
    /\ rdCap > 0
    /\ rdN = << >>
    /\ rdErr = "nil"

\* C14: with one writer, the Read that was parked on the empty buffer when a
\* write began finds in the buffer the bytes of that write and no others; it
\* returns the first min(capacity, length) of them, and the bytes of that
\* write it left and of the writes after it stay in the buffer in order for
\* the Reads that follow.
C14_ParkedReadGetsFirstWrite ==
    /\ rdPc \in AfterConsume =>
           \A first \in hFirst :
               /\ hPre = first
               /\ rdN = SubSeq(first, 1, Min(rdCap, Len(first)))
    /\ hInOrder
    /\ hUnread = rdN \o rBuffer

C14_Witness ==
    /\ rdPc = "return"
    /\ hFirst = {<<"b", "a">>}
    /\ rdCap = 1
    /\ rdN = <<"b">>
    /\ wtPc["w1"] = "unlock"
    /\ rBuffer = <<"a", "a">>

\* C17: a writer whose notification found no reader parked does not wait;
\* and while the reader is parked on r.available and no write is in progress,
\* no goroutine can take a step, whatever the buffer holds: only a new write
\* gets the reader out of its wait.
C17_ParkedUntilNextWrite ==
    /\ \A w \in Writers : hStage[w] = "none" => wtPc[w] \notin InWait
    /\ (rdPc = "waitAvailable" /\ \A w \in Writers : wtPc[w] = "idle") =>
           ~ENABLED (ReaderStep \/ \E w \in Writers : WriterStep(w))

\* The write landed between the reader's test of len and its receive: the
\* reader is parked, the buffer holds the bytes, the writer has returned.
C17_Witness ==
    /\ rdPc = "waitAvailable"
    /\ rdLen = 0
    /\ hAppendInRead
    /\ rBuffer = <<"b", "a">>
    /\ hUnread = <<"b", "a">>
    /\ wtPc["w1"] = "idle"
    /\ ~hParkedAtCall["w1"]

\* C18: with one reader, at most one writer is parked on r.consumed.
C18_OneWriterAwaitsConsumption ==
    Cardinality(ConsumedListeners) <= 1

(* ------------------------- properties: Writable ------------------------ *)

\* The place of the first b in s, for an s that holds b.
FirstIndex(s, b) ==
    CHOOSE i \in 1..Len(s) : s[i] = b /\ \A j \in 1..(i - 1) : s[j] # b

\* C8: with one call at a time, a ReadNow returns the bytes of the Write calls
\* that returned since the last ReadNow (or since Stdout()), in the order
\* they returned, and leaves the buffer empty, so that a ReadNow right after
\* it returns the empty string.
C8_ReadNowReturnsWritten ==
    (srPc = "return" /\ srOp = "ReadNow") =>
        /\ srVal = hsWritten
        /\ sBuffer = << >>

C8_Witness ==
    /\ srPc = "return"
    /\ srOp = "ReadNow"
    /\ srVal = <<"a", "b", "a">>
    /\ sBuffer = << >>

\* C9: when a ReadNow running beside the writers returns, every byte appended
\* since the last read is in the string it returns or still in the buffer,
\* once and in order.
C9_NoByteLost ==
    (srPc = "return" /\ srOp = "ReadNow") => hsUnread = srVal \o sBuffer

\* C10: a ReadUntil called on a buffer that holds delim does not reach its
\* wait; its ReadString gives the bytes up to and including the first delim
\* with a nil error and leaves in the buffer the bytes after it.
C10_ReadUntilFound ==
    (srOp = "ReadUntil" /\ hsHadDelim) =>
        /\ srPc \in {"untilLock", "untilUnlock", "return"}
        /\ srPc \in {"untilUnlock", "return"} =>
              /\ srErr = "nil"
              /\ srVal = SubSeq(hsPre, 1, FirstIndex(hsPre, srDelim))
        /\ srPc = "untilUnlock" =>
              sBuffer = SubSeq(hsPre, FirstIndex(hsPre, srDelim) + 1, Len(hsPre))

C10_Witness ==
    /\ srPc = "return"
    /\ srOp = "ReadUntil"
    /\ hsHadDelim
    /\ hsPre = <<"b", "a", "a">>
    /\ srVal = <<"b", "a">>
    /\ srErr = "nil"
    /\ sTimer = "off"

\* s ends with b and holds it nowhere else.
EndsWithOnly(s, b) ==
    /\ s # << >>
    /\ s[Len(s)] = b
    /\ ~Contains(SubSeq(s, 1, Len(s) - 1), b)

\* C11: when ReadUntil returns beside running writers, its error is nil or
\* io.EOF; it is nil exactly when the string ends with delim and holds it
\* nowhere else, and io.EOF exactly when the string holds no delim, and then
\* the string is every byte the call took out of the buffer.
C11_StatusTellsOutcome ==
    (srPc = "return" /\ srOp = "ReadUntil") =>
        /\ srErr \in {"nil", "EOF"}
        /\ srErr = "nil" <=> EndsWithOnly(srVal, srDelim)
        /\ srErr = "EOF" <=> ~Contains(srVal, srDelim)
        /\ srErr = "EOF" => hsUnread = srVal \o sBuffer

C11_Witness ==
    /\ srPc = "return"
    /\ srOp = "ReadUntil"
    /\ srDelim = "x"
    /\ srErr = "EOF"
    /\ sTimer = "fired"
    /\ hsPre = <<"a">>
    /\ srVal = <<"a", "b", "a">>

\* C12: when ReadUntil returns on its timeout, every byte appended before its
\* select took the timeout case is in the string it returns: the buffer held
\* nothing at that moment.
C12_DeadlineHonoursCommitted ==
    (srPc = "return" /\ srOp = "ReadUntil" /\ srErr = "EOF") => ~hsLeftAtDeadline

\* C13: every ReadUntil call returns, whatever the writer does; once its
\* timer has fired it is not parked in the select; only ReadUntil ever parks
\* on a channel, and a Write or a ReadNow is held up by nothing but the mutex.
C13_ReadUntilReturns ==
    /\ [](sTimer = "fired" => srPc # "waitSelect")
    /\ [](srPc = "waitSelect" => srOp = "ReadUntil")
    /\ [](\A w \in Writers :
             (swPc[w] # "idle" /\ (swPc[w] = "lock" => sMutex = None))
                 => ENABLED SWriterStep(w))
    /\ []((srOp = "ReadNow" /\ srPc # "return" /\ (srPc = "nowLock" => sMutex = None))
             => ENABLED ReadNowStep)
    /\ (srOp = "ReadUntil") ~> (srPc = "return")

C13_Witness ==
    /\ srPc = "return"
    /\ srOp = "ReadUntil"
    /\ srDelim = "x"
    /\ sTimer = "fired"
    /\ srErr = "EOF"
    /\ srVal = <<"a">>
    /\ swPc["w1"] = "signal"

\* C15: a goroutine that has just appended to, consumed from or captured the
\* buffer of the Writable, and the reader about to reset it in ReadNow, holds
\* the mutex of the Writable.
C15_MutationsUnderMutex ==
    /\ \A w \in Writers : swPc[w] = "unlock" => sMutex = w
    /\ srPc \in {"nowUnlock", "untilUnlock", "unlockMore"} => sMutex = Reader
    /\ srPc = "nowReset" => sMutex = Reader

\* C19: on a Writable used through Write and ReadUntil, every ReadUntil that
\* returned gave the front of the bytes not yet returned and left the rest in
\* the buffer; and the string of the ReadUntil in progress (val, then the v
\* not yet added to it), then the buffer, are the bytes appended, in lock
\* order, that no returned ReadUntil gave.
C19_AccumulationLossless ==
    /\ hsInOrder
    /\ hsUnread = srVal \o srV \o sBuffer

C19_Witness ==
    /\ srPc = "accumulate"
    /\ srDelim = "x"
    /\ srVal = <<"a">>
    /\ srV = <<"a">>
    /\ sBuffer = <<"a">>
    /\ sTimer = "armed"

(* ------------------------ properties: both streams --------------------- *)

\* C16: a goroutine that is about to receive or parked on a channel (Read on
\* r.available, signalWrite on r.consumed, ReadUntil in its select, the timer
\* armed or not), or that is at a nonBlockingSignal call, does not hold the
\* mutex of its stream.
C16_NoMutexWhileSuspended ==
    /\ rdPc \in {"recvAvailable", "waitAvailable", "signalConsumed"} => rMutex # Reader
    /\ \A w \in Writers :
           wtPc[w] \in {"signalWrite", "recvConsumed", "waitConsumed"} => rMutex # w
    /\ srPc \in {"timeAfter", "select", "waitSelect"} => sMutex # Reader
    /\ \A w \in Writers : swPc[w] = "signal" => sMutex # w

C16_Witness ==
    /\ srPc = "waitSelect"
    /\ sTimer = "armed"
    /\ sMutex = "w1"
    /\ swPc["w2"] = "signal"

\* C20: a goroutine at a nonBlockingSignal call can always take the step;
\* the call in signalWrite returns true exactly when the reader is parked on
\* r.available, and the reader then leaves its wait in the same step; the
\* calls on r.consumed and w.signal wake one parked receiver if there is one
\* and change nothing otherwise; and a receiver leaves its wait only in the
\* step of a sender's call (or, in the select, of the timer), so that no
\* notification sent earlier is delivered to it.
C20_SignalNeverBlocksNorQueues ==
    /\ [](/\ \A w \in Writers : wtPc[w] = "signalWrite" => ENABLED WriteSignal(w)
          /\ \A w \in Writers : swPc[w] = "signal" => ENABLED SWriteSignal(w)
          /\ rdPc = "signalConsumed" => ENABLED ReadSignalConsumed)
    /\ [][/\ \A w \in Writers :
                (wtPc[w] = "signalWrite" /\ wtPc'[w] # "signalWrite") =>
                    /\ (wtPc'[w] = "recvConsumed") <=> (rdPc = "waitAvailable")
                    /\ (wtPc'[w] = "return") <=> (rdPc # "waitAvailable")
                    /\ rdPc' = IF rdPc = "waitAvailable" THEN "lockRead" ELSE rdPc
          /\ (rdPc = "signalConsumed" /\ rdPc' # "signalConsumed") =>
                IF ConsumedListeners = {} THEN wtPc' = wtPc
                ELSE \E w \in ConsumedListeners :
                         wtPc' = [wtPc EXCEPT ![w] = "return"]
          /\ \A w \in Writers :
                (swPc[w] = "signal" /\ swPc'[w] # "signal") =>
                    srPc' = IF srPc = "waitSelect" THEN "relock" ELSE srPc
          /\ (rdPc = "waitAvailable" /\ rdPc' # "waitAvailable") =>
                \E w \in Writers : wtPc[w] = "signalWrite" /\ wtPc'[w] # "signalWrite"
          /\ \A w \in Writers :
                (wtPc[w] = "waitConsumed" /\ wtPc'[w] # "waitConsumed") =>
                    (rdPc = "signalConsumed" /\ rdPc' # "signalConsumed")
          /\ (srPc = "waitSelect" /\ srPc' # "waitSelect") =>
                \/ \E w \in Writers : swPc[w] = "signal" /\ swPc'[w] # "signal"
                \/ sTimer = "armed" /\ sTimer' = "fired"
         ]_vars

\* The consumed notification was sent while the writer was not yet parked:
\* the writer parked afterwards and stays parked, the Read having returned.
C20_Witness ==
    /\ wtPc["w1"] = "waitConsumed"
    /\ hStage["w1"] = "returned"
    /\ rdPc = "idle"
    /\ wtPc["w2"] = "idle"

(* ------------------------ properties: collapsable ---------------------- *)

C22_CollapsedIffOddToggles ==
    (\A c \in Callers : gPc[c] = "idle") => (gCollapsed <=> hOdd)

====
